---------------------------- MODULE Spec2Model ----------------------------
(***************************************************************************)
(* A model of the detection consolidator and the distance-threshold        *)
(* proximity predicate (utilsNeeded.py), the dead-reckoning predictor and  *)
(* the two tracker run loops (Thesis/deadReckoning_pred.py,                *)
(* object_tracker_kalman.py).                                              *)
(*                                                                         *)
(* Python's float is the IEEE-754 binary64 format.  The code divides and   *)
(* multiplies floats and truncates the result with int(), so the model     *)
(* carries binary64 arithmetic: a float is a sign, a mantissa of           *)
(* Precision binary digits and the exponent of its lowest digit; every     *)
(* operation computes the exact result and rounds it to nearest, ties to   *)
(* even.                                                                   *)
(***************************************************************************)
EXTENDS Integers, Sequences, FiniteSets, TLC

\* ------------------------------------------------------------------------
\* binary64 arithmetic
\* ------------------------------------------------------------------------

\* The mantissa width of a Python float (binary64).
Precision == 53

\* A mantissa does not fit a machine integer of the model checker: a natural
\* number is kept as a sequence of limbs of LimbBits bits, lowest limb first,
\* with no zero limb at the high end.
LimbBits == 12

Base == 2 ^ LimbBits

Abs(n) == IF n < 0 THEN -n ELSE n

Sign(n) == IF n < 0 THEN -1 ELSE IF n = 0 THEN 0 ELSE 1

Min2(a, b) == IF a <= b THEN a ELSE b

Max2(a, b) == IF a >= b THEN a ELSE b

Zeros(n) == [k \in 1..n |-> 0]

Reverse(s) == [k \in 1..Len(s) |-> s[Len(s) + 1 - k]]

RECURSIVE LimbsOfNat(_)
LimbsOfNat(n) == IF n = 0 THEN <<>> ELSE <<n % Base>> \o LimbsOfNat(n \div Base)

RECURSIVE NatOfLimbs(_)
NatOfLimbs(l) == IF l = <<>> THEN 0 ELSE l[1] + Base * NatOfLimbs(Tail(l))

\* Drop the zero limbs at the high end.
Strip(l) ==
    LET nz == {k \in 1..Len(l) : l[k] # 0}
    IN  IF nz = {} THEN <<>>
        ELSE SubSeq(l, 1, CHOOSE k \in nz : \A j \in nz : j <= k)

RECURSIVE BitLenNat(_)
BitLenNat(n) == IF n = 0 THEN 0 ELSE 1 + BitLenNat(n \div 2)

\* The number of binary digits of a stripped limb sequence.
BitLen(l) == IF l = <<>> THEN 0 ELSE (Len(l) - 1) * LimbBits + BitLenNat(l[Len(l)])

RECURSIVE AddCarry(_, _, _)
\* a + b + c, c the carry in.
AddCarry(a, b, c) ==
    IF a = <<>> /\ b = <<>> THEN (IF c = 0 THEN <<>> ELSE <<c>>)
    ELSE LET x == IF a = <<>> THEN 0 ELSE a[1]
             y == IF b = <<>> THEN 0 ELSE b[1]
             t == x + y + c
         IN  <<t % Base>> \o AddCarry(IF a = <<>> THEN <<>> ELSE Tail(a),
                                      IF b = <<>> THEN <<>> ELSE Tail(b),
                                      t \div Base)

RECURSIVE SubBorrow(_, _, _)
\* a - b - c for a >= b + c, c the borrow in (not stripped).
SubBorrow(a, b, c) ==
    IF a = <<>> THEN <<>>
    ELSE LET y == IF b = <<>> THEN 0 ELSE b[1]
             t == a[1] - y - c
         IN  <<(t + Base) % Base>> \o SubBorrow(Tail(a),
                                                IF b = <<>> THEN <<>> ELSE Tail(b),
                                                IF t < 0 THEN 1 ELSE 0)

RECURSIVE LessFrom(_, _, _)
LessFrom(a, b, k) ==
    IF k = 0 THEN FALSE
    ELSE IF a[k] # b[k] THEN a[k] < b[k]
    ELSE LessFrom(a, b, k - 1)

\* a < b for stripped limb sequences.
Less(a, b) == IF Len(a) # Len(b) THEN Len(a) < Len(b) ELSE LessFrom(a, b, Len(a))

RECURSIVE MulCarry(_, _, _)
\* a * n + c for a small natural n.
MulCarry(a, n, c) ==
    IF a = <<>> THEN LimbsOfNat(c)
    ELSE LET t == a[1] * n + c
         IN  <<t % Base>> \o MulCarry(Tail(a), n, t \div Base)

RECURSIVE DivFrom(_, _, _)
\* Schoolbook division by a small natural d of the limbs hi, highest first:
\* the quotient's limbs, highest first, and the remainder.
DivFrom(hi, d, rem) ==
    IF hi = <<>> THEN [q |-> <<>>, r |-> rem]
    ELSE LET cur  == rem * Base + hi[1]
             rest == DivFrom(Tail(hi), d, cur % d)
         IN  [q |-> <<cur \div d>> \o rest.q, r |-> rest.r]

\* a \div d and a % d for a limb sequence a and a small natural d.
DivSmall(a, d) ==
    LET qr == DivFrom(Reverse(a), d, 0)
    IN  [q |-> Strip(Reverse(qr.q)), r |-> qr.r]

\* a * 2^s.
ShiftLeft(a, s) ==
    IF a = <<>> THEN <<>>
    ELSE Zeros(s \div LimbBits) \o MulCarry(a, 2 ^ (s % LimbBits), 0)

\* a \div 2^s, and whether a % 2^s is nonzero.
ShiftRight(a, s) ==
    LET w    == s \div LimbBits
        low  == SubSeq(a, 1, Min2(w, Len(a)))
        high == SubSeq(a, Min2(w, Len(a)) + 1, Len(a))
        qr   == DivSmall(high, 2 ^ (s % LimbBits))
    IN  [q |-> qr.q, r |-> (qr.r # 0) \/ (\E k \in 1..Len(low) : low[k] # 0)]

FZero == [s |-> 0, m |-> <<>>, e |-> 0]

\* Round the exact value s * l * 2^e (sticky: a nonzero part below the lowest
\* digit of l) to Precision binary digits, to nearest, ties to even.
RoundLimbs(s, l, e, sticky) ==
    LET n == BitLen(l)
    IN  IF n = 0 \/ s = 0 THEN FZero
        ELSE IF n <= Precision
             THEN [s |-> s, m |-> ShiftLeft(l, Precision - n), e |-> e - (Precision - n)]
        ELSE LET sh    == n - Precision
                 q1    == ShiftRight(l, sh - 1)
                 guard == q1.q[1] % 2
                 kept  == DivSmall(q1.q, 2).q
                 rest  == sticky \/ q1.r
                 up    == guard = 1 /\ (rest \/ kept[1] % 2 = 1)
                 inc   == IF up THEN AddCarry(kept, <<1>>, 0) ELSE kept
             IN  IF BitLen(inc) > Precision
                 THEN [s |-> s, m |-> DivSmall(inc, 2).q, e |-> e + sh + 1]
                 ELSE [s |-> s, m |-> inc, e |-> e + sh]

\* float(n) of an integer n.
FFromInt(n) == RoundLimbs(Sign(n), LimbsOfNat(Abs(n)), 0, FALSE)

\* a / b in binary64, for integers a and b # 0 (Python's true division).
FDivInt(a, b) ==
    IF a = 0 THEN FZero
    ELSE LET k  == Precision + 2 + BitLenNat(Abs(b))
             qr == DivSmall(ShiftLeft(LimbsOfNat(Abs(a)), k), Abs(b))
         IN  RoundLimbs(Sign(a) * Sign(b), qr.q, 0 - k, qr.r # 0)

\* x * n in binary64, for a float x and an integer n.
FMulInt(x, n) ==
    IF x.s = 0 \/ n = 0 THEN FZero
    ELSE RoundLimbs(x.s * Sign(n), MulCarry(x.m, Abs(n), 0), x.e, FALSE)

\* c + x in binary64, for an integer c and a float x.
FAddInt(c, x) ==
    IF x.s = 0 THEN FFromInt(c)
    ELSE IF c = 0 THEN x
    ELSE LET e0 == Min2(x.e, 0)
             cb == ShiftLeft(LimbsOfNat(Abs(c)), 0 - e0)
             xb == ShiftLeft(x.m, x.e - e0)
         IN  IF Sign(c) = x.s
             THEN RoundLimbs(x.s, AddCarry(cb, xb, 0), e0, FALSE)
             ELSE IF Less(cb, xb)
                  THEN RoundLimbs(x.s, Strip(SubBorrow(xb, cb, 0)), e0, FALSE)
                  ELSE RoundLimbs(Sign(c), Strip(SubBorrow(cb, xb, 0)), e0, FALSE)

\* int(x): the integer part of a float, truncated toward zero.
FTrunc(x) ==
    IF x.s = 0 THEN 0
    ELSE IF x.e >= 0 THEN x.s * NatOfLimbs(ShiftLeft(x.m, x.e))
    ELSE x.s * NatOfLimbs(ShiftRight(x.m, 0 - x.e).q)

\* x >= y for floats.
FGe(x, y) ==
    IF x.s # y.s THEN x.s > y.s
    ELSE IF x.s = 0 THEN TRUE
    ELSE LET xlt == IF x.e # y.e THEN x.e < y.e ELSE Less(x.m, y.m)
             ylt == IF x.e # y.e THEN y.e < x.e ELSE Less(y.m, x.m)
         IN  IF x.s = 1 THEN ~xlt ELSE ~ylt

\* ------------------------------------------------------------------------
\* Inputs
\* ------------------------------------------------------------------------

\* Pixel coordinates of the consolidator's input boxes run over 0..MaxX.
MaxX == 2

\* Every input box of the consolidator spans the rows 0..BoxHeight.
BoxHeight == 1

\* The lengths of the detection lists handed to the consolidator.
Lengths == 0..3

\* What the detector attaches to a box: a confidence (the code only orders
\* confidences, so a level stands for the float) and a class id.
Kinds == {[conf |-> 2, cls_id |-> 0], [conf |-> 1, cls_id |-> 1]}

ClsIds == {kd.cls_id : kd \in Kinds}

\* model.names[cls_id]
ClassName(c) == IF c = 0 THEN "person" ELSE "bicycle"

\* The thresholds passed as iou_threshold: k / ThrDen for k in 0..ThrDen.
ThrDen == 2

Thresholds == {[num |-> k, den |-> ThrDen] : k \in 0..ThrDen}

\* Boxes as the detector emits them: every box with 0 <= x1 < x2 <= MaxX, a
\* box of zero width, and a box that lies apart from all of these.
WideBoxes ==
    {bx \in {[x1 |-> a, y1 |-> 0, x2 |-> b, y2 |-> BoxHeight] :
                a \in 0..MaxX, b \in 0..MaxX} : bx.x1 < bx.x2}

FlatBox == [x1 |-> 0, y1 |-> 0, x2 |-> 0, y2 |-> BoxHeight]

FarBox == [x1 |-> MaxX + 1, y1 |-> 0, x2 |-> MaxX + 2, y2 |-> BoxHeight]

Boxes == WideBoxes \cup {FlatBox, FarBox}

\* A detection [x1, y1, x2, y2, confidence, class_id, class_name].
Det(b, cf, c) ==
    [x1 |-> b.x1, y1 |-> b.y1, x2 |-> b.x2, y2 |-> b.y2,
     conf |-> cf, cls_id |-> c, class_name |-> ClassName(c)]

\* Either kind in a box with a width; a person in the other two boxes.
Detections ==
    {Det(b, kd.conf, kd.cls_id) : b \in WideBoxes, kd \in Kinds}
    \cup {Det(b, 2, 0) : b \in {FlatBox, FarBox}}

DetectionLists == UNION {[1..n -> Detections] : n \in Lengths}

\* The predictor is called on boxes of side TrackSide whose corner lies on
\* the diagonal of a grid of PixelStep pixels (MaxCell + 1 places), at
\* timestamps that are multiples of TimeStep seconds.
PixelStep == 5

MaxCell == 3

TrackSide == 1

TimeStep == 11

MaxTick == 2

\* The number of predictor calls in a run of the model.
MaxCalls == 2

TrackBoxes ==
    {[x1 |-> a * PixelStep, y1 |-> a * PixelStep,
      x2 |-> a * PixelStep + TrackSide, y2 |-> a * PixelStep + TrackSide] :
        a \in 0..MaxCell}

\* A person anywhere on the diagonal, and a bicycle at its first place.
TrackDetections ==
    {Det(b, 2, 0) : b \in TrackBoxes}
    \cup {Det(b, 1, 1) : b \in {c \in TrackBoxes : c.x1 = 0}}

Timestamps == {k * TimeStep : k \in 0..MaxTick}

\* check_proximity_simple is called on lists of at most two boxes: boxes of
\* side ProxSide whose corner lies on a grid of ProxStepX by ProxStepY
\* pixels, and one box twice as wide, whose centre is not on the grid's
\* half-pixel; the threshold is a whole number of pixels from -1 up.
ProxStepX == 3

ProxStepY == 4

ProxSide == 1

ProxMaxThr == 5

ProxBoxes ==
    {[x1 |-> a * ProxStepX, y1 |-> b * ProxStepY,
      x2 |-> a * ProxStepX + ProxSide, y2 |-> b * ProxStepY + ProxSide] :
        a \in 0..1, b \in 0..1}
    \cup {[x1 |-> 0, y1 |-> 0, x2 |-> 2 * ProxSide, y2 |-> ProxSide]}

ProxLists == UNION {[1..n -> ProxBoxes] : n \in 0..2}

ProxThresholds == -1..ProxMaxThr

\* A run of a tracker reads at most MaxFrames frames, and the detector
\* returns at most MaxFrameLen detections for a frame.
MaxFrames == 2

MaxFrameLen == 2

\* What the detector returns to DeadReckoningTracker.run: lists over a
\* person at the first and a person at the last place of the diagonal.
SceneDetections ==
    {d \in TrackDetections : d.cls_id = 0 /\ d.x1 \in {0, MaxCell * PixelStep}}

SceneLists == UNION {[1..n -> SceneDetections] : n \in 0..MaxFrameLen}

\* What the detector returns to ObjectTracker.run: lists over a person in
\* the box from x = 0 to 1 and a bicycle in the box from x = 0 to MaxX.
KfDetections ==
    {d \in Detections : d.x1 = 0 /\ d.x2 = (IF d.cls_id = 0 THEN 1 ELSE MaxX)}

KfLists == UNION {[1..n -> KfDetections] : n \in 0..MaxFrameLen}

\* The region of interest is the square from (0, 0) to (RegionSide,
\* RegionSide); the tracker is built with proximity_threshold =
\* ProximityThreshold pixels.
RegionSide == 2

ProximityThreshold == 1

\* ------------------------------------------------------------------------
\* State
\* ------------------------------------------------------------------------

VARIABLES
    prog,            \* the entry point this run of the program executes
    \* consolidate_detections: its arguments, locals and return value
    detections,      \* the list argument, sorted in place
    iou_threshold,   \* the threshold argument, [num, den]
    used,            \* used[k]: detection k has been claimed
    i,               \* the outer loop's index (from 1)
    j,               \* the inner loop's index
    acc,             \* cx1, cy1, cx2, cy2, conf, cls_id, class_name of the seed
    geom,            \* inter_area, area1, area2, union_area, iou of the last pair
    consolidated,    \* the list being built and returned
    cpc,             \* where consolidate_detections stands
    \* the caller of consolidate_detections
    given,           \* the list as it was passed to the running call
    claimed,         \* claimed[k]: the seed that claimed detection k (0: none)
    out1,            \* what the first of two calls in a row returned
    run,             \* which of the two calls is running
    \* DeadReckoningTracker
    last_positions,  \* self.last_positions: class id -> <<x, y, timestamp>>
    dr,              \* the last apply_dead_reckoning call: arguments, locals, result
    ncalls,          \* how many predictor calls were made
    \* check_proximity_simple
    prox,            \* its arguments and what it returned, as called and swapped
    \* DeadReckoningTracker.run and ObjectTracker.run
    rpc,             \* where the run loop stands
    nread,           \* how many frames self.cap.read() has delivered
    center_area,     \* self.center_area, "None" until the first frame is read
    frames,          \* what the detector returned, frame by frame
    frame_dets,      \* the list the for loop of the current frame goes through
    di,              \* the for loop's index (from 1)
    events,          \* the stages the current frame has passed, in order
    log_rows,        \* the rows written to the prediction log
    alert_rows,      \* the records written to the alert log
    clock,           \* the last value time.time() returned to the predictor
    kalman_filters,  \* self.kalman_filters: class id -> the filter object kept
    keys,            \* the class keys the predictor has been called with so far
    fault            \* the exception that ended the program, "" if none

consVars == <<detections, iou_threshold, used, i, j, acc, geom, consolidated,
              cpc, given, claimed, out1, run>>

drVars == <<last_positions, dr, ncalls>>

runVars == <<rpc, nread, center_area, frames, frame_dets, di, events, log_rows,
             alert_rows, clock, kalman_filters>>

vars == <<prog, consVars, drVars, prox, runVars, keys, fault>>

\* ------------------------------------------------------------------------
\* consolidate_detections (utilsNeeded.py)
\* ------------------------------------------------------------------------

NoAcc == [cx1 |-> 0, cy1 |-> 0, cx2 |-> 0, cy2 |-> 0,
          conf |-> 0, cls_id |-> 0, class_name |-> ""]

NoGeom == [inter_area |-> 0, area1 |-> 0, area2 |-> 0, union_area |-> 0,
           divided |-> FALSE, iou |-> FZero, merged |-> FALSE]

\* The place after every detection sorted so far: the list stays as given.
InsertPosLast(sorted, d) == Len(sorted)

\* Where to put d in a list sorted by descending confidence: list.sort with
\* reverse=True is stable, so d goes after every element of confidence >= its own.
InsertPos(sorted, d) ==
    Cardinality({k \in 1..Len(sorted) : sorted[k].conf >= d.conf})

RECURSIVE SortByConfDesc(_)
\* detections.sort(key=lambda x: x[4], reverse=True)
SortByConfDesc(s) ==
    IF s = <<>> THEN <<>>
    ELSE LET front == SortByConfDesc(SubSeq(s, 1, Len(s) - 1))
             d     == s[Len(s)]
             p     == InsertPos(front, d)
         IN  SubSeq(front, 1, p) \o <<d>> \o SubSeq(front, p + 1, Len(front))

\* inter_area of the accumulator box a and the candidate n.
InterArea(a, n) ==
    Max2(0, Min2(a.cx2, n.x2) - Max2(a.cx1, n.x1)) *
    Max2(0, Min2(a.cy2, n.y2) - Max2(a.cy1, n.y1))

Area1(a) == (a.cx2 - a.cx1) * (a.cy2 - a.cy1)

Area2(n) == (n.x2 - n.x1) * (n.y2 - n.y1)

UnionArea(a, n) == Area1(a) + Area2(n) - InterArea(a, n)

\* The guard of the conditional expression that computes iou: the code
\* divides exactly when it holds.
IouDivides(union_area) == union_area > 0

\* iou = inter_area / union_area if union_area > 0 else 0, for a union_area
\* that is not zero where the code divides.
Iou(inter_area, union_area) ==
    IF IouDivides(union_area) THEN FDivInt(inter_area, union_area) ELSE FZero

\* The float the literal num/den denotes (decimal literals round to nearest).
ThresholdValue(t) == FDivInt(t.num, t.den)

\* The test as iou > iou_threshold.
MergeTestStrict(iou, t) == ~FGe(ThresholdValue(t), iou)

\* if iou >= iou_threshold
MergeTest(iou, t) == FGe(iou, ThresholdValue(t))

\* The merge with cx2 taken as the smaller right edge.
MergeShrinking(a, n) ==
    [a EXCEPT !.cx1 = Min2(a.cx1, n.x1), !.cy1 = Min2(a.cy1, n.y1),
              !.cx2 = Min2(a.cx2, n.x2), !.cy2 = Max2(a.cy2, n.y2),
              !.conf = Max2(a.conf, n.conf)]

\* The merged box, and conf = max(conf, nconf).
Merge(a, n) ==
    [a EXCEPT !.cx1 = Min2(a.cx1, n.x1), !.cy1 = Min2(a.cy1, n.y1),
              !.cx2 = Max2(a.cx2, n.x2), !.cy2 = Max2(a.cy2, n.y2),
              !.conf = Max2(a.conf, n.conf)]

\* The detection appended for a seed: [cx1, cy1, cx2, cy2, conf, cls_id, class_name].
Emit(a) ==
    [x1 |-> a.cx1, y1 |-> a.cy1, x2 |-> a.cx2, y2 |-> a.cy2,
     conf |-> a.conf, cls_id |-> a.cls_id, class_name |-> a.class_name]

\* The call: an empty list returns [] at once; otherwise sort in place and
\* set up the loop.
Enter ==
    /\ cpc = "call"
    /\ given' = detections
    /\ IF detections = <<>>
       THEN /\ consolidated' = <<>>
            /\ cpc' = "done"
            /\ UNCHANGED <<detections, used, claimed, i>>
       ELSE /\ detections' = SortByConfDesc(detections)
            /\ used' = [k \in 1..Len(detections) |-> FALSE]
            /\ claimed' = [k \in 1..Len(detections) |-> 0]
            /\ consolidated' = <<>>
            /\ i' = 1
            /\ cpc' = "outer"
    /\ UNCHANGED <<iou_threshold, j, acc, geom, out1, run, fault>>

\* for i in range(len(detections)), past the end: return consolidated.
OuterEnd ==
    /\ cpc = "outer"
    /\ i > Len(detections)
    /\ cpc' = "done"
    /\ UNCHANGED <<detections, iou_threshold, used, i, j, acc, geom,
                   consolidated, given, claimed, out1, run, fault>>

\* if not used[i] fails: next i.
OuterSkip ==
    /\ cpc = "outer"
    /\ i <= Len(detections)
    /\ used[i]
    /\ i' = i + 1
    /\ UNCHANGED <<detections, iou_threshold, used, j, acc, geom,
                   consolidated, cpc, given, claimed, out1, run, fault>>

\* An unclaimed detection becomes a seed.
OuterSeed ==
    /\ cpc = "outer"
    /\ i <= Len(detections)
    /\ ~used[i]
    /\ used' = [used EXCEPT ![i] = TRUE]
    /\ claimed' = [claimed EXCEPT ![i] = i]
    /\ acc' = [cx1 |-> detections[i].x1, cy1 |-> detections[i].y1,
               cx2 |-> detections[i].x2, cy2 |-> detections[i].y2,
               conf |-> detections[i].conf, cls_id |-> detections[i].cls_id,
               class_name |-> detections[i].class_name]
    /\ j' = i + 1
    /\ cpc' = "inner"
    /\ UNCHANGED <<detections, iou_threshold, i, geom, consolidated,
                   given, out1, run, fault>>

\* for j in range(i + 1, len(detections)), past the end: append the merged
\* detection, next i.
InnerEnd ==
    /\ cpc = "inner"
    /\ j > Len(detections)
    /\ consolidated' = Append(consolidated, Emit(acc))
    /\ i' = i + 1
    /\ cpc' = "outer"
    /\ UNCHANGED <<detections, iou_threshold, used, j, acc, geom,
                   given, claimed, out1, run, fault>>

\* if not used[j] fails: next j.
InnerSkip ==
    /\ cpc = "inner"
    /\ j <= Len(detections)
    /\ used[j]
    /\ j' = j + 1
    /\ UNCHANGED <<detections, iou_threshold, used, i, acc, geom,
                   consolidated, cpc, given, claimed, out1, run, fault>>

\* The IoU of the accumulator and candidate j, and the merge if it passes.
InnerTest ==
    /\ cpc = "inner"
    /\ j <= Len(detections)
    /\ ~used[j]
    /\ LET n          == detections[j]
           inter_area == InterArea(acc, n)
           union_area == UnionArea(acc, n)
       IN  IF IouDivides(union_area) /\ union_area = 0
           THEN \* ZeroDivisionError leaves the function
                /\ fault' = "ZeroDivisionError"
                /\ cpc' = "raised"
                /\ geom' = [inter_area |-> inter_area, area1 |-> Area1(acc),
                            area2 |-> Area2(n), union_area |-> union_area,
                            divided |-> TRUE, iou |-> FZero, merged |-> FALSE]
                /\ UNCHANGED <<used, claimed, acc, j>>
           ELSE LET iou == Iou(inter_area, union_area)
                    m   == MergeTest(iou, iou_threshold)
                IN  /\ geom' = [inter_area |-> inter_area, area1 |-> Area1(acc),
                                area2 |-> Area2(n), union_area |-> union_area,
                                divided |-> IouDivides(union_area),
                                iou |-> iou, merged |-> m]
                    /\ used' = IF m THEN [used EXCEPT ![j] = TRUE] ELSE used
                    /\ claimed' = IF m THEN [claimed EXCEPT ![j] = i] ELSE claimed
                    /\ acc' = IF m THEN Merge(acc, n) ELSE acc
                    /\ j' = j + 1
                    /\ UNCHANGED <<cpc, fault>>
    /\ UNCHANGED <<detections, iou_threshold, i, consolidated, given, out1, run>>

\* The caller hands the returned list to a second call, with the same threshold.
CallAgain ==
    /\ prog = "consolidate_detections"
    /\ cpc = "done"
    /\ run = 1
    /\ out1' = consolidated
    /\ detections' = consolidated
    /\ run' = 2
    /\ cpc' = "call"
    /\ UNCHANGED <<iou_threshold, used, i, j, acc, geom, consolidated,
                   given, claimed, fault>>
    /\ UNCHANGED <<prog, keys, drVars, prox, runVars>>

\* One step of consolidate_detections.
Consolidate ==
    /\ cpc \in {"call", "outer", "inner"}
    /\ \/ Enter
       \/ OuterEnd
       \/ OuterSkip
       \/ OuterSeed
       \/ InnerEnd
       \/ InnerSkip
       \/ InnerTest
    /\ UNCHANGED <<prog, keys, drVars, prox, runVars>>

\* ------------------------------------------------------------------------
\* DeadReckoningTracker.apply_dead_reckoning (Thesis/deadReckoning_pred.py)
\* ------------------------------------------------------------------------

NoCall == [called |-> FALSE, cls |-> 0, timestamp |-> 0, had |-> FALSE,
           current_x |-> 0, current_y |-> 0, last_info |-> <<0, 0, 0>>,
           time_delta |-> 0, zero_vx |-> FALSE, zero_vy |-> FALSE,
           future_x |-> 0, future_y |-> 0]

NoPositions == [k \in {} |-> <<0, 0, 0>>]

\* int((a + b) / 2)
Center(a, b) == FTrunc(FDivInt(a + b, 2))

\* The lookup with (0, 0, 0) as the default.
LastInfoOrigin(lp, cls, current_x, current_y, timestamp) ==
    IF cls \in DOMAIN lp THEN lp[cls] ELSE <<0, 0, 0>>

\* self.last_positions.get(cls, (current_x, current_y, timestamp))
LastInfo(lp, cls, current_x, current_y, timestamp) ==
    IF cls \in DOMAIN lp THEN lp[cls] ELSE <<current_x, current_y, timestamp>>

\* The guard as time_delta >= 0.
VelocityDividesAtZero(time_delta) == time_delta >= 0

\* The guard of the conditional expressions that compute the velocities: the
\* code divides exactly when it holds.
VelocityDivides(time_delta) == time_delta > 0

\* (current - last) / time_delta if time_delta > 0 else 0, for a time_delta
\* that is not zero where the code divides.
Velocity(current, last, time_delta) ==
    IF VelocityDivides(time_delta) THEN FDivInt(current - last, time_delta) ELSE FZero

\* int(current + velocity * time_delta)
Future(current, velocity, time_delta) ==
    FTrunc(FAddInt(current, FMulInt(velocity, time_delta)))

\* The store made only for a class that has no entry yet.
StoreIfAbsent(lp, cls, info) ==
    [k \in DOMAIN lp \cup {cls} |-> IF k \in DOMAIN lp THEN lp[k] ELSE info]

\* self.last_positions[cls] = (current_x, current_y, timestamp)
Store(lp, cls, info) ==
    [k \in DOMAIN lp \cup {cls} |-> IF k = cls THEN info ELSE lp[k]]

\* apply_dead_reckoning(det, timestamp): the locals line by line, the store
\* into self.last_positions and the returned tuple (kept in dr).
DeadReckoning(det, timestamp) ==
    \E current_x \in {Center(det.x1, det.x2)},
       current_y \in {Center(det.y1, det.y2)} :
    \E last_info \in {LastInfo(last_positions, det.cls_id,
                               current_x, current_y, timestamp)} :
    \E time_delta \in {timestamp - last_info[3]} :
       IF VelocityDivides(time_delta) /\ time_delta = 0
       THEN \* ZeroDivisionError leaves the method before the store
            /\ fault' = "ZeroDivisionError"
            /\ dr' = [NoCall EXCEPT !.called = TRUE, !.cls = det.cls_id,
                                    !.timestamp = timestamp,
                                    !.had = det.cls_id \in DOMAIN last_positions,
                                    !.current_x = current_x,
                                    !.current_y = current_y,
                                    !.last_info = last_info,
                                    !.time_delta = time_delta]
            /\ UNCHANGED last_positions
            /\ keys' = keys \cup {det.cls_id}
       ELSE \E velocity_x \in {Velocity(current_x, last_info[1], time_delta)},
               velocity_y \in {Velocity(current_y, last_info[2], time_delta)} :
            \E future_x \in {Future(current_x, velocity_x, time_delta)},
               future_y \in {Future(current_y, velocity_y, time_delta)} :
               /\ last_positions' =
                      Store(last_positions, det.cls_id,
                            <<current_x, current_y, timestamp>>)
               /\ dr' = [called |-> TRUE, cls |-> det.cls_id,
                         timestamp |-> timestamp,
                         had |-> det.cls_id \in DOMAIN last_positions,
                         current_x |-> current_x, current_y |-> current_y,
                         last_info |-> last_info, time_delta |-> time_delta,
                         zero_vx |-> velocity_x = FZero,
                         zero_vy |-> velocity_y = FZero,
                         future_x |-> future_x, future_y |-> future_y]
               /\ fault' = ""
               /\ keys' = keys \cup {det.cls_id}

\* A caller applies the predictor to a detection at a timestamp of its choice.
ApplyDeadReckoning ==
    /\ prog = "apply_dead_reckoning"
    /\ fault = ""
    /\ ncalls < MaxCalls
    /\ \E det \in TrackDetections, timestamp \in Timestamps :
          DeadReckoning(det, timestamp)
    /\ ncalls' = ncalls + 1
    /\ UNCHANGED <<prog, consVars, prox, runVars>>

\* ------------------------------------------------------------------------
\* check_proximity_simple (utilsNeeded.py)
\* ------------------------------------------------------------------------

NoProx == [called |-> FALSE, target |-> <<>>, specific_object_detections |-> <<>>,
           proximity_threshold |-> 0, result |-> FALSE, swapped |-> FALSE]

\* Twice (a + b) / 2. The ends are integers, so the centre is a multiple of
\* one half and the division is exact in binary64; the model keeps the
\* numerator.
Center2(a, b) == a + b

\* Four times (center_obj_x - center_target_x) ** 2 +
\* (center_obj_y - center_target_y) ** 2: differences and squares of
\* multiples of one half of this size are exact in binary64.
DistanceSq4(values, obj_det) ==
    (Center2(obj_det.x1, obj_det.x2) - Center2(values.x1, values.x2)) ^ 2 +
    (Center2(obj_det.y1, obj_det.y2) - Center2(values.y1, values.y2)) ^ 2

\* The test as distance < proximity_threshold.
DistanceWithinExclusive(d4, proximity_threshold) ==
    /\ proximity_threshold >= 0
    /\ d4 < 4 * proximity_threshold * proximity_threshold

\* distance <= proximity_threshold, for distance = q ** 0.5 with 4 * q = d4.
\* The threshold is an integer and so a binary64 value; the rounded root of
\* q is at most the threshold exactly when the real root is, because a q
\* above threshold ** 2 exceeds it by at least 1/4, far more than half a unit
\* in the last place of the root at pixel magnitudes. A root is never
\* negative, so a negative threshold admits nothing.
DistanceWithin(d4, proximity_threshold) ==
    /\ proximity_threshold >= 0
    /\ d4 <= 4 * proximity_threshold * proximity_threshold

RECURSIVE ObjLoop(_, _, _, _)
\* for obj_det in specific_object_detections, from the k-th on: TRUE is the
\* return True inside the loop.
ObjLoop(values, dets, k, proximity_threshold) ==
    IF k > Len(dets) THEN FALSE
    ELSE IF DistanceWithin(DistanceSq4(values, dets[k]), proximity_threshold)
         THEN TRUE
         ELSE ObjLoop(values, dets, k + 1, proximity_threshold)

RECURSIVE TargetLoop(_, _, _, _)
\* for values in target, from the k-th on; past the end: return False.
TargetLoop(target, dets, k, proximity_threshold) ==
    IF k > Len(target) THEN FALSE
    ELSE IF ObjLoop(target[k], dets, 1, proximity_threshold)
         THEN TRUE
         ELSE TargetLoop(target, dets, k + 1, proximity_threshold)

check_proximity_simple(target, specific_object_detections, proximity_threshold) ==
    TargetLoop(target, specific_object_detections, 1, proximity_threshold)

\* A caller evaluates the predicate, and again with the two lists swapped.
CheckProximity ==
    /\ prog = "check_proximity_simple"
    /\ ~prox.called
    /\ \E target \in ProxLists, dets \in ProxLists, thr \in ProxThresholds :
          prox' = [called |-> TRUE, target |-> target,
                   specific_object_detections |-> dets,
                   proximity_threshold |-> thr,
                   result |-> check_proximity_simple(target, dets, thr),
                   swapped |-> check_proximity_simple(dets, target, thr)]
    /\ UNCHANGED <<prog, keys, consVars, drVars, runVars, fault>>

\* ------------------------------------------------------------------------
\* DeadReckoningTracker.run and process_detection (Thesis/deadReckoning_pred.py)
\* ------------------------------------------------------------------------

\* utilitiesHelper.update_center_area(width, height, factor=2): the region of
\* interest, fixed by the dimensions of the first frame.
update_center_area ==
    [x1 |-> 0, y1 |-> 0, x2 |-> RegionSide, y2 |-> RegionSide]

\* utilitiesHelper.is_object_near(det, center_area, proximity_threshold): the
\* centre of the detection's box lies within the threshold of the centre of
\* the region.
is_object_near(det, area, proximity_threshold) ==
    DistanceWithin(DistanceSq4(area, det), proximity_threshold)

\* utilitiesHelper.log_detection(writer, time.time(), center_x, center_y,
\* future_x, future_y, det[6]) appends one row; the model tags the row with
\* the frame and the place of the detection in it, and leaves the time out.
log_detection(rows, f, n, call, class_name) ==
    Append(rows, [frame |-> f, index |-> n,
                  center_x |-> call.current_x, center_y |-> call.current_y,
                  future_x |-> call.future_x, future_y |-> call.future_y,
                  class_name |-> class_name])

\* utilitiesHelper.handle_alert(alert_file, save_alert_times, det,
\* time.time(), center_x, center_y, future_x, future_y, start_time,
\* center_area) appends one record, tagged like a row of the log.
handle_alert(rows, f, n, call, det, area) ==
    Append(rows, [frame |-> f, index |-> n,
                  center_x |-> call.current_x, center_y |-> call.current_y,
                  future_x |-> call.future_x, future_y |-> call.future_y,
                  class_name |-> det.class_name, center_area |-> area])

\* The alert held back once the class has a record.
AlertOncePerClass(rows, near, f, n, call, det, area) ==
    IF near /\ \A m \in 1..Len(rows) : rows[m].class_name # det.class_name
    THEN handle_alert(rows, f, n, call, det, area)
    ELSE rows

\* if is_object_near(...): trigger_proximity_alert(); handle_alert(...)
Alert(rows, near, f, n, call, det, area) ==
    IF near THEN handle_alert(rows, f, n, call, det, area) ELSE rows

\* The stages process_detection takes a detection through, in order.
ProcessStages(near) ==
    <<"predict", "log", "proximity">> \o (IF near THEN <<"alert">> ELSE <<>>)

\* The loop left before its last element.
ExhaustedEarly(n, dets) == n >= Len(dets)

\* for det in detections: the loop is over once every element was visited.
Exhausted(n, dets) == n > Len(dets)

\* ret, frame = self.cap.read() before the loop, and the region computed
\* from the first frame; without a frame the loop is skipped.
DrStart ==
    /\ prog = "DeadReckoningTracker.run"
    /\ rpc = "start"
    /\ \E ok \in BOOLEAN :
          IF ok
          THEN /\ nread' = nread + 1
               /\ center_area' = update_center_area
               /\ events' = <<"read">>
               /\ rpc' = "while"
          ELSE /\ rpc' = "stopped"
               /\ UNCHANGED <<nread, center_area, events>>
    /\ UNCHANGED <<frames, frame_dets, di, log_rows, alert_rows, clock,
                   kalman_filters>>
    /\ UNCHANGED <<prog, keys, consVars, drVars, prox, fault>>

\* while ret: detections = utilitiesHelper.run_yolov8_inference(...)
DrInfer ==
    /\ prog = "DeadReckoningTracker.run"
    /\ rpc = "while"
    /\ \E dets \in SceneLists :
          /\ frames' = Append(frames, dets)
          /\ frame_dets' = dets
    /\ di' = 1
    /\ events' = Append(events, "detect")
    /\ rpc' = "for"
    /\ UNCHANGED <<nread, center_area, log_rows, alert_rows, clock,
                   kalman_filters>>
    /\ UNCHANGED <<prog, keys, consVars, drVars, prox, fault>>

\* self.process_detection(det, frame) for the next detection of the frame:
\* the predictor at the time the clock shows, the row of the log, and the
\* alert if the detection is near the region. time.time() has moved on by
\* TimeStep since the predictor was last called.
ProcessDetection ==
    /\ prog = "DeadReckoningTracker.run"
    /\ rpc = "for"
    /\ ~Exhausted(di, frame_dets)
    /\ \E timestamp \in {clock + TimeStep} :
          /\ DeadReckoning(frame_dets[di], timestamp)
          /\ clock' = timestamp
    /\ IF fault' # ""
       THEN /\ rpc' = "raised"
            /\ UNCHANGED <<di, events, log_rows, alert_rows>>
       ELSE \E near \in {is_object_near(frame_dets[di], center_area,
                                        ProximityThreshold)} :
            /\ log_rows' = log_detection(log_rows, nread, di, dr',
                                         frame_dets[di].class_name)
            /\ alert_rows' = Alert(alert_rows, near, nread, di, dr',
                                   frame_dets[di], center_area)
            /\ events' = events \o ProcessStages(near)
            /\ di' = di + 1
            /\ UNCHANGED rpc
    /\ UNCHANGED <<nread, center_area, frames, frame_dets, kalman_filters>>
    /\ UNCHANGED <<prog, consVars, ncalls, prox>>

\* The frame is shown; 'q' leaves the loop, otherwise the next frame is read
\* and the loop goes on if there was one. cleanup follows the loop.
DrFrameEnd ==
    /\ prog = "DeadReckoningTracker.run"
    /\ rpc = "for"
    /\ Exhausted(di, frame_dets)
    /\ \E quit \in BOOLEAN, ok \in BOOLEAN :
          IF ~quit /\ ok /\ nread < MaxFrames
          THEN /\ nread' = nread + 1
               /\ events' = <<"read">>
               /\ rpc' = "while"
          ELSE /\ rpc' = "stopped"
               /\ UNCHANGED <<nread, events>>
    /\ UNCHANGED <<center_area, frames, frame_dets, di, log_rows, alert_rows,
                   clock, kalman_filters>>
    /\ UNCHANGED <<prog, keys, consVars, drVars, prox, fault>>

\* ------------------------------------------------------------------------
\* ObjectTracker.run, track_objects and apply_kalman_filter
\* (object_tracker_kalman.py)
\* ------------------------------------------------------------------------

NoFilters == [c \in {} |-> [id |-> <<0, 0>>, measurements |-> <<>>]]

\* KalmanFilterWrapper(): a new filter object that has corrected nothing yet.
\* Its identity is the place of the call that constructed it.
KalmanFilterWrapper(fresh) == [id |-> fresh, measurements |-> <<>>]

\* kf_wrapper.correct(measurement): the same object, one measurement on.
correct(kf_wrapper, measurement) ==
    [kf_wrapper EXCEPT !.measurements = Append(@, measurement)]

\* The filter constructed at every call, whether the class has one or not.
apply_kalman_filter_always_new(filters, det, center_x, center_y, fresh) ==
    [c \in DOMAIN filters \cup {det.cls_id} |->
        IF c = det.cls_id
        THEN correct(KalmanFilterWrapper(fresh), <<center_x, center_y>>)
        ELSE filters[c]]

\* iou_threshold=0.5, the default consolidate_detections is called with.
DefaultIouThreshold == [num |-> 1, den |-> 2]

\* if cls not in self.kalman_filters: self.kalman_filters[cls] =
\* KalmanFilterWrapper(); then correct(measurement) and predict(fps). The
\* state of a cv2 filter is a function of the measurements it was given,
\* which is what the model keeps of it; fresh names the object a
\* construction at this call yields.
apply_kalman_filter(filters, det, center_x, center_y, fresh) ==
    [c \in DOMAIN filters \cup {det.cls_id} |->
        IF c = det.cls_id
        THEN correct(IF c \in DOMAIN filters THEN filters[c]
                                             ELSE KalmanFilterWrapper(fresh),
                     <<center_x, center_y>>)
        ELSE filters[c]]

\* self.writer.writerow([center_x, center_y, kf_wrapper.future_x,
\* kf_wrapper.future_y, det[6]]), tagged with the frame and the place of the
\* detection; the future position is the filter's, known by its measurements.
writerow(rows, f, n, center_x, center_y, filter, class_name) ==
    Append(rows, [frame |-> f, index |-> n,
                  center_x |-> center_x, center_y |-> center_y,
                  filter |-> filter, class_name |-> class_name])

\* The stages track_objects takes a detection through, in order.
TrackStages == <<"predict", "log">>

\* ret, frame = self.cap.read(); without a frame the loop ends; otherwise the
\* detector runs and consolidate_detections(detections) is called.
KfRead ==
    /\ prog = "ObjectTracker.run"
    /\ rpc = "read"
    /\ \E ok \in BOOLEAN :
          IF ok /\ nread < MaxFrames
          THEN /\ nread' = nread + 1
               /\ \E dets \in KfLists :
                     /\ frames' = Append(frames, dets)
                     /\ detections' = dets
               /\ iou_threshold' = DefaultIouThreshold
               /\ cpc' = "call"
               /\ events' = <<"read", "detect">>
               /\ rpc' = "consolidate"
          ELSE /\ rpc' = "stopped"
               /\ UNCHANGED <<nread, frames, detections, iou_threshold, cpc,
                              events>>
    /\ UNCHANGED <<used, i, j, acc, geom, consolidated, given, claimed, out1, run>>
    /\ UNCHANGED <<center_area, frame_dets, di, log_rows, alert_rows, clock,
                   kalman_filters>>
    /\ UNCHANGED <<prog, keys, drVars, prox, fault>>

\* consolidate_detections has returned: self.track_objects(frame,
\* consolidated_detections) starts its loop.
KfTrack ==
    /\ prog = "ObjectTracker.run"
    /\ rpc = "consolidate"
    /\ cpc = "done"
    /\ frame_dets' = consolidated
    /\ di' = 1
    /\ events' = Append(events, "consolidate")
    /\ rpc' = "for"
    /\ UNCHANGED <<nread, center_area, frames, log_rows, alert_rows, clock,
                   kalman_filters>>
    /\ UNCHANGED <<prog, keys, consVars, drVars, prox, fault>>

\* The body of track_objects for the next detection: the filter of its
\* class, made on first use, takes the centre; one row is written.
TrackObject ==
    /\ prog = "ObjectTracker.run"
    /\ rpc = "for"
    /\ ~Exhausted(di, frame_dets)
    /\ \E center_x \in {Center(frame_dets[di].x1, frame_dets[di].x2)},
          center_y \in {Center(frame_dets[di].y1, frame_dets[di].y2)} :
          /\ kalman_filters' =
                apply_kalman_filter(kalman_filters, frame_dets[di],
                                    center_x, center_y, <<nread, di>>)
          /\ log_rows' = writerow(log_rows, nread, di, center_x, center_y,
                                  kalman_filters'[frame_dets[di].cls_id],
                                  frame_dets[di].class_name)
    /\ keys' = keys \cup {frame_dets[di].cls_id}
    /\ events' = events \o TrackStages
    /\ di' = di + 1
    /\ UNCHANGED <<rpc, nread, center_area, frames, frame_dets, alert_rows, clock>>
    /\ UNCHANGED <<prog, consVars, drVars, prox, fault>>

\* The frame is shown; 'q' leaves the loop, otherwise it reads again.
KfFrameEnd ==
    /\ prog = "ObjectTracker.run"
    /\ rpc = "for"
    /\ Exhausted(di, frame_dets)
    /\ \E quit \in BOOLEAN : rpc' = IF quit THEN "stopped" ELSE "read"
    /\ UNCHANGED <<nread, center_area, frames, frame_dets, di, events, log_rows,
                   alert_rows, clock, kalman_filters>>
    /\ UNCHANGED <<prog, keys, consVars, drVars, prox, fault>>

\* ------------------------------------------------------------------------
\* Entry points
\* ------------------------------------------------------------------------

ConsIdle ==
    /\ detections = <<>>
    /\ iou_threshold = [num |-> 1, den |-> 2]
    /\ used = <<>>
    /\ claimed = <<>>
    /\ i = 0
    /\ j = 0
    /\ acc = NoAcc
    /\ geom = NoGeom
    /\ consolidated = <<>>
    /\ cpc = "idle"
    /\ given = <<>>
    /\ out1 = <<>>
    /\ run = 1

DrIdle ==
    /\ last_positions = NoPositions
    /\ dr = NoCall
    /\ ncalls = 0

\* A tracker right after construction (rpc: the entry of run), or none.
RunIdle(at) ==
    /\ rpc = at
    /\ nread = 0
    /\ center_area = "None"
    /\ frames = <<>>
    /\ frame_dets = <<>>
    /\ di = 0
    /\ events = <<>>
    /\ log_rows = <<>>
    /\ alert_rows = <<>>
    /\ clock = 0
    /\ kalman_filters = NoFilters
    /\ keys = {}

\* consolidate_detections(consolidate_detections(D, t), t)
InitConsolidate ==
    /\ prog = "consolidate_detections"
    /\ detections \in DetectionLists
    /\ iou_threshold \in Thresholds
    /\ used = <<>>
    /\ claimed = <<>>
    /\ i = 0
    /\ j = 0
    /\ acc = NoAcc
    /\ geom = NoGeom
    /\ consolidated = <<>>
    /\ cpc = "call"
    /\ given = <<>>
    /\ out1 = <<>>
    /\ run = 1
    /\ DrIdle
    /\ RunIdle("idle")
    /\ prox = NoProx
    /\ fault = ""

\* A fresh DeadReckoningTracker: self.last_positions = {}
InitDeadReckoning ==
    /\ prog = "apply_dead_reckoning"
    /\ ConsIdle
    /\ DrIdle
    /\ RunIdle("idle")
    /\ prox = NoProx
    /\ fault = ""

\* check_proximity_simple(target, dets, thr) and (dets, target, thr)
InitProximity ==
    /\ prog = "check_proximity_simple"
    /\ ConsIdle
    /\ DrIdle
    /\ RunIdle("idle")
    /\ prox = NoProx
    /\ fault = ""

\* DeadReckoningTracker(...).run()
InitDeadReckoningTracker ==
    /\ prog = "DeadReckoningTracker.run"
    /\ ConsIdle
    /\ DrIdle
    /\ RunIdle("start")
    /\ prox = NoProx
    /\ fault = ""

\* ObjectTracker(...).run()
InitObjectTracker ==
    /\ prog = "ObjectTracker.run"
    /\ ConsIdle
    /\ DrIdle
    /\ RunIdle("read")
    /\ prox = NoProx
    /\ fault = ""

Init ==
    \/ InitConsolidate
    \/ InitDeadReckoning
    \/ InitProximity
    \/ InitDeadReckoningTracker
    \/ InitObjectTracker

Next ==
    \/ Consolidate
    \/ CallAgain
    \/ ApplyDeadReckoning
    \/ CheckProximity
    \/ DrStart
    \/ DrInfer
    \/ ProcessDetection
    \/ DrFrameEnd
    \/ KfRead
    \/ KfTrack
    \/ TrackObject
    \/ KfFrameEnd

\* The program runs one of its entry points.
Spec == Init /\ [][Next]_vars

\* ------------------------------------------------------------------------
\* Properties
\* ------------------------------------------------------------------------

BoxArea(d) == (d.x2 - d.x1) * (d.y2 - d.y1)

\* The place in consolidated of the detection seed s produced.
SeedRank(s) == Cardinality({m \in 1..s : claimed[m] = m})

\* C1: consolidating the list a first call returned, with the same threshold
\* in (0, 1], returns that list again: same detections, same order.
C1_Idempotent ==
    (prog = "consolidate_detections" /\ cpc = "done" /\ run = 2
        /\ iou_threshold.num > 0)
    => consolidated = out1

\* C2: the returned list is no longer than the list given, and the box
\* returned for a seed has at least the area of every detection that seed
\* claimed, the seed itself included.
C2_SizeAndArea ==
    cpc = "done" =>
        /\ Len(consolidated) <= Len(given)
        /\ \A m \in 1..Len(detections) :
              /\ claimed[m] \in 1..m
              /\ SeedRank(claimed[m]) \in 1..Len(consolidated)
              /\ BoxArea(consolidated[SeedRank(claimed[m])]) >= BoxArea(detections[m])

\* A candidate was merged into a seed whose returned box is larger than it.
C2_Witness ==
    /\ cpc = "done"
    /\ Len(consolidated) < Len(given)
    /\ \E m \in 1..Len(detections) :
          /\ claimed[m] # m
          /\ BoxArea(consolidated[SeedRank(claimed[m])]) > BoxArea(detections[m])

\* inter_area / union_area >= num / den over the rationals, the IoU of a
\* pair whose union area is not positive being 0.
IouAtLeast(a, n, t) ==
    LET w     == Max2(0, Min2(a.cx2, n.x2) - Max2(a.cx1, n.x1))
        h     == Max2(0, Min2(a.cy2, n.y2) - Max2(a.cy1, n.y1))
        inter == w * h
        un    == (a.cx2 - a.cx1) * (a.cy2 - a.cy1)
                 + (n.x2 - n.x1) * (n.y2 - n.y1) - inter
    IN  IF un > 0 THEN inter * t.den >= t.num * un ELSE 0 >= t.num

Apart(a, b) == a.x2 < b.x1 \/ b.x2 < a.x1 \/ a.y2 < b.y1 \/ b.y2 < a.y1

\* C4: given exactly two detections whose boxes are disjoint, the call
\* returns these two detections unmodified, whatever the threshold.
C4_DisjointPairUnmodified ==
    (prog = "consolidate_detections" /\ cpc = "done" /\ run = 1
        /\ Len(given) = 2 /\ Apart(given[1], given[2])
        /\ BoxArea(given[1]) > 0 /\ BoxArea(given[2]) > 0)
    => /\ Len(consolidated) = 2
       /\ \/ consolidated = given
          \/ consolidated = <<given[2], given[1]>>

\* C5: a call for a class that has no entry in last_positions returns a
\* future position equal to the current position.
C5_FirstSighting ==
    (dr.called /\ ~dr.had /\ fault = "") =>
        /\ dr.future_x = dr.current_x
        /\ dr.future_y = dr.current_y

\* A first sighting away from the origin, at a time after 0, while another
\* class already has an entry.
C5_Witness ==
    /\ dr.called /\ ~dr.had /\ fault = ""
    /\ dr.current_x > 0 /\ dr.current_y > 0 /\ dr.timestamp > 0
    /\ DOMAIN last_positions = ClsIds

\* C6: a call for a class that has an entry, at a timestamp after the stored
\* one, returns current + (current - last) in each coordinate.
C6_OneStepExtrapolation ==
    (dr.called /\ dr.had /\ dr.time_delta > 0 /\ fault = "") =>
        /\ dr.future_x = dr.current_x + (dr.current_x - dr.last_info[1])
        /\ dr.future_y = dr.current_y + (dr.current_y - dr.last_info[2])

\* The pair at a true distance of at most the threshold, over the rationals
\* (both sides squared, the centres doubled).
NearCentres(a, b, thr) ==
    /\ thr >= 0
    /\ ((a.x1 + a.x2) - (b.x1 + b.x2)) ^ 2 + ((a.y1 + a.y2) - (b.y1 + b.y2)) ^ 2
          <= 4 * thr * thr

Count(seq, e) == Cardinality({n \in 1..Len(seq) : seq[n] = e})

RECURSIVE DrFlow(_)
\* The stages of a frame of DeadReckoningTracker.run after n detections.
DrFlow(n) ==
    IF n = 0 THEN <<"read", "detect">>
    ELSE DrFlow(n - 1) \o <<"predict", "log", "proximity">>
         \o (IF NearCentres(frame_dets[n], center_area, ProximityThreshold)
             THEN <<"alert">> ELSE <<>>)

RECURSIVE KfFlow(_)
\* The stages of a frame of ObjectTracker.run after n detections.
KfFlow(n) ==
    IF n = 0 THEN <<"read", "detect", "consolidate">>
    ELSE KfFlow(n - 1) \o <<"predict", "log">>

\* Where the frame stands, tracker by tracker.
FrameFlow ==
    /\ prog = "DeadReckoningTracker.run" =>
          /\ cpc = "idle"
          /\ rpc = "while" => events = <<"read">>
          /\ rpc = "for" =>
                /\ frame_dets = frames[nread]
                /\ di \in 1..(Len(frame_dets) + 1)
                /\ events = DrFlow(di - 1)
    /\ prog = "ObjectTracker.run" =>
          /\ alert_rows = <<>>
          /\ rpc = "consolidate" => events = <<"read", "detect">>
          /\ rpc = "for" =>
                /\ frame_dets = consolidated
                /\ given = frames[nread]
                /\ di \in 1..(Len(frame_dets) + 1)
                /\ events = KfFlow(di - 1)

\* The loop over the frame's detections is over, one row written for each.
FrameDone ==
    /\ di = Len(frame_dets) + 1
    /\ Count(events, "predict") = Len(frame_dets)
    /\ Count(events, "log") = Len(frame_dets)
    /\ Cardinality({m \in 1..Len(log_rows) : log_rows[m].frame = nread})
          = Len(frame_dets)

RowsFor(rows, f, n) ==
    Cardinality({m \in 1..Len(rows) : rows[m].frame = f /\ rows[m].index = n})

\* process_detection has returned for detection n of frame f.
Processed(f, n) == f < nread \/ (f = nread /\ n < di)

\* C9: every processed detection of every frame has exactly one row in the
\* prediction log, and exactly one record in the alert log if it is near
\* the region and none if it is not, whatever was alerted before; no other
\* rows or records exist.
C9_OneAlertPerNearDetection ==
    prog = "DeadReckoningTracker.run" =>
        /\ \A f \in 1..Len(frames) : \A n \in 1..Len(frames[f]) :
              /\ RowsFor(log_rows, f, n) = IF Processed(f, n) THEN 1 ELSE 0
              /\ RowsFor(alert_rows, f, n) =
                    IF Processed(f, n)
                       /\ NearCentres(frames[f][n], center_area, ProximityThreshold)
                    THEN 1 ELSE 0
        /\ \A m \in 1..Len(log_rows) :
              /\ log_rows[m].frame \in 1..Len(frames)
              /\ log_rows[m].index \in 1..Len(frames[log_rows[m].frame])
        /\ \A m \in 1..Len(alert_rows) :
              /\ alert_rows[m].frame \in 1..Len(frames)
              /\ alert_rows[m].index \in 1..Len(frames[alert_rows[m].frame])

\* A class near the region in two frames in a row has two alert records,
\* and a detection away from the region has a row and no record.
C9_Witness ==
    /\ prog = "DeadReckoningTracker.run"
    /\ nread = 2
    /\ rpc = "for"
    /\ di > Len(frame_dets)
    /\ \E a \in 1..Len(alert_rows), b \in 1..Len(alert_rows) :
          /\ alert_rows[a].frame = 1
          /\ alert_rows[b].frame = 2
          /\ alert_rows[a].class_name = alert_rows[b].class_name
    /\ Len(alert_rows) < Len(log_rows)

\* C10: no input ends in a division by zero; a pair whose union area is not
\* positive gets IoU 0 without a division; a time delta that is not positive
\* gives velocity 0 on both axes and a future position equal to the current.
C10_DegenerateInputs ==
    /\ fault = ""
    /\ geom.union_area <= 0 => ~geom.divided /\ geom.iou = FZero
    /\ (dr.called /\ dr.time_delta <= 0) =>
          /\ dr.zero_vx /\ dr.zero_vy
          /\ dr.future_x = dr.current_x
          /\ dr.future_y = dr.current_y

\* A class seen again at another place with an earlier timestamp.
C10_Witness ==
    /\ dr.called /\ dr.had /\ dr.time_delta < 0
    /\ dr.current_x # dr.last_info[1]
    /\ dr.current_y # dr.last_info[2]
    /\ dr.future_x = dr.current_x

\* The rows ObjectTracker wrote for class c, by their place in the log.
RowsOfClass(c) ==
    {r \in 1..Len(log_rows) : log_rows[r].class_name = ClassName(c)}

\* The call (frame, place in the frame) that passed class c for the first time.
FirstCall(c) ==
    LET r == CHOOSE r \in RowsOfClass(c) : \A q \in RowsOfClass(c) : r <= q
    IN  <<log_rows[r].frame, log_rows[r].index>>

\* C11: at every moment last_positions (dead reckoning) and kalman_filters
\* (Kalman) have an entry for exactly the class keys the predictor has been
\* called with so far, so an entry appears with the first call for its key and
\* never goes away; the filter object kept for a key is the one constructed at
\* the first call for that key, it has taken every measurement of the key
\* since, and no two keys share an object.
C11_TrackStateMapping ==
    /\ prog \in {"apply_dead_reckoning", "DeadReckoningTracker.run"} =>
          DOMAIN last_positions = keys
    /\ prog = "ObjectTracker.run" =>
          /\ DOMAIN kalman_filters = keys
          /\ \A c \in DOMAIN kalman_filters :
                /\ RowsOfClass(c) # {}
                /\ kalman_filters[c].id = FirstCall(c)
                /\ Len(kalman_filters[c].measurements) =
                      Cardinality(RowsOfClass(c))
          /\ \A c \in DOMAIN kalman_filters, d \in DOMAIN kalman_filters :
                c # d => kalman_filters[c].id # kalman_filters[d].id

\* In the second frame a class met in the first frame is met again: its
\* filter is the object made in the first frame, with a measurement of each.
C11_Witness ==
    /\ prog = "ObjectTracker.run"
    /\ nread = 2
    /\ \E c \in keys :
          /\ kalman_filters[c].id[1] = 1
          /\ Len(kalman_filters[c].measurements) >= 2
          /\ \E r \in RowsOfClass(c) : log_rows[r].frame = 2

\* What the last call of apply_dead_reckoning was given: the centre of its
\* detection and its timestamp.
GivenState == <<dr.current_x, dr.current_y, dr.timestamp>>

\* The state of the class of the last call is what that call was given,
\* whatever its time delta was.
StateOverwritten ==
    (dr.called /\ fault = "") =>
        /\ dr.cls \in DOMAIN last_positions
        /\ last_positions[dr.cls] = GivenState

\* In DeadReckoningTracker.run, the call for a detection that follows one of
\* its own class in the frame read the centre and the timestamp of that one.
SecondAgainstFirst ==
    (/\ prog = "DeadReckoningTracker.run"
     /\ rpc = "for"
     /\ fault = ""
     /\ di >= 3
     /\ frame_dets[di - 1].cls_id = frame_dets[di - 2].cls_id) =>
        /\ dr.had
        /\ dr.last_info =
              <<Center(frame_dets[di - 2].x1, frame_dets[di - 2].x2),
                Center(frame_dets[di - 2].y1, frame_dets[di - 2].y2),
                dr.timestamp - TimeStep>>
        /\ dr.time_delta = TimeStep

\* A step leaves the state of every class but that of the call as it was.
OthersUntouched ==
    \A c \in DOMAIN last_positions \ {dr'.cls} :
        /\ c \in DOMAIN last_positions'
        /\ last_positions'[c] = last_positions[c]

\* C12: every call apply_dead_reckoning(det, timestamp), a call with a zero or
\* a negative time delta included, leaves (current_x, current_y, timestamp) of
\* that call as the state of its class and the state of every other class as
\* it was; so of two detections of one class in a frame, the second is
\* measured against the centre of the first.
C12_StateOverwrittenEveryCall ==
    /\ [](StateOverwritten /\ SecondAgainstFirst)
    /\ [][OthersUntouched]_vars

\* The second frame shows a person where the first frame showed it, after a
\* person elsewhere: the call for it read the other person's centre, and the
\* prediction moved away from where the person stands.
C12_Witness ==
    /\ prog = "DeadReckoningTracker.run"
    /\ nread = 2
    /\ rpc = "for"
    /\ di = 3
    /\ frames[1] = <<frame_dets[2]>>
    /\ frame_dets[1].cls_id = frame_dets[2].cls_id
    /\ frame_dets[1].x1 # frame_dets[2].x1
    /\ dr.last_info[1] = Center(frame_dets[1].x1, frame_dets[1].x2)
    /\ dr.last_info[1] # dr.current_x
    /\ dr.future_x # dr.current_x
    /\ last_positions[dr.cls] = GivenState

\* The seeds of the finished call: the detections that claimed themselves.
Seeds == {m \in 1..Len(detections) : claimed[m] = m}

\* C13: no detection merged into a seed has a higher confidence than the
\* seed, so the accumulator keeps the seed's confidence, class id and class
\* name through every merge and the detection returned for a seed carries
\* them; every detection given is claimed by exactly one seed, there is one
\* returned detection per seed, and the returned list is in non-increasing
\* order of confidence.
C13_SeedDominance ==
    /\ cpc = "inner" =>
          /\ acc.conf = detections[i].conf
          /\ acc.cls_id = detections[i].cls_id
          /\ acc.class_name = detections[i].class_name
    /\ cpc = "done" =>
          /\ Len(detections) = Len(given)
          /\ Len(consolidated) = Cardinality(Seeds)
          /\ \A m \in 1..Len(detections) :
                /\ used[m]
                /\ claimed[m] \in Seeds
                /\ claimed[m] <= m
                /\ detections[m].conf <= detections[claimed[m]].conf
          /\ \A s \in Seeds :
                /\ consolidated[SeedRank(s)].conf = detections[s].conf
                /\ consolidated[SeedRank(s)].cls_id = detections[s].cls_id
                /\ consolidated[SeedRank(s)].class_name = detections[s].class_name
          /\ \A a \in 1..Len(consolidated), b \in 1..Len(consolidated) :
                a < b => consolidated[a].conf >= consolidated[b].conf

\* The list given was not in order; a detection of lower confidence and of
\* another class was merged into a seed, and two detections were returned.
C13_Witness ==
    /\ prog = "consolidate_detections"
    /\ run = 1
    /\ cpc = "done"
    /\ given # detections
    /\ Len(consolidated) = 2
    /\ \E m \in 1..Len(detections) :
          /\ claimed[m] # m
          /\ detections[m].conf < detections[claimed[m]].conf
          /\ detections[m].cls_id # detections[claimed[m]].cls_id
          /\ consolidated[SeedRank(claimed[m])].cls_id =
                detections[claimed[m]].cls_id

=============================================================================
